---- MODULE Spec2Model ----
(***************************************************************************)
(* Model of the chat client in src/src/App.js: one React component (App)   *)
(* per browser session, the hosted message store and identity provider it  *)
(* talks to, and the text-generation endpoint.                             *)
(*                                                                         *)
(* Every state variable of the component is a function over Sessions, so   *)
(* that two independent sessions can share one store.  The hosted services *)
(* are modelled by their contract as the code consumes it: the store is an *)
(* append-only set of documents stamped by a strictly increasing server    *)
(* clock, a subscription delivers complete query results, an append or a   *)
(* sign-in or a fetch completes later with success or failure.             *)
(***************************************************************************)
EXTENDS Naturals, Integers, Sequences, FiniteSets, TLC

VARIABLES
    env,            \* build-time configuration: the set of keys that are set
    phase,          \* per session: "new" (before the mount effects), "mounted"
    auth,           \* useState(null)  App.js:31
    db,             \* useState(null)  App.js:32
    isConfigValid,  \* useState(false) App.js:33
    user,           \* useState(null)  App.js:24
    messages,       \* useState([])    App.js:25
    newMessage,     \* useState('')    App.js:26
    geminiResponse, \* useState('')    App.js:27
    authSub,        \* identity observer of App.js:55: "none" | "active"
    authQueue,      \* identity notifications not yet handed to the observer
    identity,       \* the provider's current identity of the session
    signIns,        \* number of anonymous identities created for the session
    signInPending,  \* signInAnonymously calls in flight
    msgSub,         \* onSnapshot listener of App.js:72: "none" | "active" | "errored"
    cursor,         \* store version of the last snapshot handed to the listener
    pendingAdds,    \* addDoc calls in flight, oldest first
    fetchPending,   \* fetch calls in flight
    log,            \* console.error calls made, by kind
    unhandled,      \* promise rejections nobody handled, by kind
    store,          \* the 'messages' collection: a set of documents
    clock,          \* the store's server clock = number of committed appends
    lost,           \* number of identities the provider has dropped
    lastEvent       \* the handler or callback that ran last

appVars  == <<phase, auth, db, isConfigValid>>
uiVars   == <<messages, newMessage, geminiResponse>>
authVars == <<user, authSub, authQueue, identity, signIns, signInPending, lost>>
syncVars == <<msgSub, cursor, pendingAdds, store, clock>>
diagVars == <<log, unhandled>>
vars == <<env, appVars, uiVars, authVars, syncVars, diagVars, fetchPending, lastEvent>>

--------------------------------------------------------------------------
(* Bounds of the model *)
MaxLen == 1        \* longest input text
MaxStore == 2      \* most documents the collection holds
MaxPending == 1    \* most addDoc calls in flight per session
MaxFetch == 2      \* most fetch calls in flight per session
MaxResend == 2     \* most addDoc calls in flight where submits overlap
MaxLost == 1       \* most identities the provider drops per session

Sessions == {"A", "B"}
Null == <<>>

Whitespace == {" "}
Chars == {" ", "a"}
Texts == UNION {[1..n -> Chars] : n \in 0..MaxLen}

(* The seven configuration keys of App.js:15-20 and App.js:106 *)
FirebaseKeys == {"apiKey", "authDomain", "projectId", "storageBucket",
                 "messagingSenderId", "appId"}
Keys == FirebaseKeys \cup {"geminiApiKey"}

(* Fixed texts of the source *)
ConfigErrorText == "Error: Gemini API key is not configured. Please add REACT_APP_GEMINI_API_KEY to your .env.local file."
NoMessagesText == "No messages to reply to!"
FallbackText == "Sorry, I couldn't generate a response."

--------------------------------------------------------------------------
(* Pure helpers *)

RECURSIVE TrimStart(_)
TrimStart(s) ==
    IF s # <<>> /\ Head(s) \in Whitespace THEN TrimStart(Tail(s)) ELSE s

RECURSIVE TrimEnd(_)
TrimEnd(s) ==
    IF s # <<>> /\ s[Len(s)] \in Whitespace
    THEN TrimEnd(SubSeq(s, 1, Len(s) - 1)) ELSE s

(* String.prototype.trim *)
Trim(s) == TrimEnd(TrimStart(s))

(* orderBy('createdAt'): the documents of D, createdAt ascending *)
RECURSIVE OrderByCreatedAt(_)
OrderByCreatedAt(D) ==
    IF D = {} THEN <<>>
    ELSE LET d == CHOOSE x \in D : \A y \in D : x.data.createdAt <= y.data.createdAt
         IN <<d>> \o OrderByCreatedAt(D \ {d})

(* The query result at store version t *)
QueryAt(t) == OrderByCreatedAt({d \in store : d.data.createdAt <= t})

(* docs.map(doc => ({id: doc.id, ...doc.data()})): the fields of data win *)
DocToMsg(doc) == doc.data @@ [id |-> doc.id]

SnapshotToMsgs(docs) == [i \in 1..Len(docs) |-> DocToMsg(docs[i])]

(* The uid of the n-th anonymous identity of session c *)
Uid(c, n) == <<c, n>>

Event(op, c) == [op |-> op, c |-> c]

--------------------------------------------------------------------------
(* The state after construction of every session, for a build            *)
(* configuration drawn from Envs.                                          *)
InitWith(Envs) ==
    /\ env \in Envs
    /\ phase = [c \in Sessions |-> "new"]
    /\ auth = [c \in Sessions |-> Null]
    /\ db = [c \in Sessions |-> Null]
    /\ isConfigValid = [c \in Sessions |-> FALSE]
    /\ user = [c \in Sessions |-> Null]
    /\ messages = [c \in Sessions |-> <<>>]
    /\ newMessage = [c \in Sessions |-> <<>>]
    /\ geminiResponse = [c \in Sessions |-> ""]
    /\ authSub = [c \in Sessions |-> "none"]
    /\ authQueue = [c \in Sessions |-> <<>>]
    /\ identity = [c \in Sessions |-> Null]
    /\ signIns = [c \in Sessions |-> 0]
    /\ signInPending = [c \in Sessions |-> 0]
    /\ msgSub = [c \in Sessions |-> "none"]
    /\ cursor = [c \in Sessions |-> -1]
    /\ pendingAdds = [c \in Sessions |-> <<>>]
    /\ fetchPending = [c \in Sessions |-> <<>>]
    /\ log = [c \in Sessions |-> {}]
    /\ unhandled = [c \in Sessions |-> {}]
    /\ store = {}
    /\ clock = 0
    /\ lost = [c \in Sessions |-> 0]
    /\ lastEvent = Event("none", "none")

(* Builds with the store configured, and builds lacking one of the two    *)
(* keys the mount effect tests.                                            *)
Init == InitWith({Keys, Keys \ {"apiKey"}, Keys \ {"projectId"}})

--------------------------------------------------------------------------
(* Mount: the "Initialize Firebase and check config" effect, App.js:36-50. *)
(* outcome "ok": nothing throws; "throwApp": initializeApp or getAuth      *)
(* throws before any state is set; "throwFirestore": getFirestore throws   *)
(* after setAuth.                                                          *)
InitFirebase(c, outcome) ==
    /\ phase[c] = "new"
    /\ phase' = [phase EXCEPT ![c] = "mounted"]
    /\ IF "apiKey" \in env /\ "projectId" \in env
       THEN /\ outcome \in {"ok", "throwApp", "throwFirestore"}
            /\ auth' = [auth EXCEPT ![c] = IF outcome = "throwApp" THEN Null ELSE <<"auth", c>>]
            /\ db' = [db EXCEPT ![c] = IF outcome = "ok" THEN <<"db", c>> ELSE Null]
            /\ isConfigValid' = [isConfigValid EXCEPT ![c] = (outcome = "ok")]
            /\ log' = [log EXCEPT ![c] = IF outcome = "ok" THEN @ ELSE @ \cup {"init"}]
       ELSE /\ outcome = "ok"
            /\ isConfigValid' = [isConfigValid EXCEPT ![c] = FALSE]
            /\ UNCHANGED <<auth, db, log>>
    /\ lastEvent' = Event("InitFirebase", c)
    /\ UNCHANGED <<env, uiVars, authVars, syncVars, unhandled, fetchPending>>

(* The "Authentication State Observer" effect, App.js:53-66: subscribes;   *)
(* the provider then reports the current identity.                         *)
AuthEffect(c) ==
    /\ auth[c] # Null
    /\ authSub[c] = "none"
    /\ authSub' = [authSub EXCEPT ![c] = "active"]
    /\ authQueue' = [authQueue EXCEPT ![c] = <<identity[c]>>]
    /\ lastEvent' = Event("AuthEffect", c)
    /\ UNCHANGED <<env, appVars, uiVars, user, identity, signIns, signInPending, lost,
                   syncVars, diagVars, fetchPending>>

(* Mutant: the callback stores whatever the provider reports *)
AuthNotify_Reset(c) ==
    /\ authSub[c] = "active"
    /\ authQueue[c] # <<>>
    /\ authQueue' = [authQueue EXCEPT ![c] = Tail(@)]
    /\ user' = [user EXCEPT ![c] = Head(authQueue[c])]
    /\ IF Head(authQueue[c]) # Null
       THEN UNCHANGED signInPending
       ELSE signInPending' = [signInPending EXCEPT ![c] = @ + 1]
    /\ lastEvent' = Event("AuthNotify", c)
    /\ UNCHANGED <<env, appVars, uiVars, authSub, identity, signIns, lost,
                   syncVars, diagVars, fetchPending>>

(* The onAuthStateChanged callback, App.js:55-63 *)
AuthNotify(c) ==
    /\ authSub[c] = "active"
    /\ authQueue[c] # <<>>
    /\ authQueue' = [authQueue EXCEPT ![c] = Tail(@)]
    /\ IF Head(authQueue[c]) # Null
       THEN /\ user' = [user EXCEPT ![c] = Head(authQueue[c])]
            /\ UNCHANGED signInPending
       ELSE /\ signInPending' = [signInPending EXCEPT ![c] = @ + 1]
            /\ UNCHANGED user
    /\ lastEvent' = Event("AuthNotify", c)
    /\ UNCHANGED <<env, appVars, uiVars, authSub, identity, signIns, lost,
                   syncVars, diagVars, fetchPending>>

(* signInAnonymously resolves: the provider creates an identity and        *)
(* notifies the observer.                                                  *)
SignInSucceed(c) ==
    /\ signInPending[c] > 0
    /\ signInPending' = [signInPending EXCEPT ![c] = @ - 1]
    /\ signIns' = [signIns EXCEPT ![c] = @ + 1]
    /\ identity' = [identity EXCEPT ![c] = Uid(c, signIns[c] + 1)]
    /\ authQueue' = [authQueue EXCEPT ![c] = Append(@, Uid(c, signIns[c] + 1))]
    /\ lastEvent' = Event("SignInSucceed", c)
    /\ UNCHANGED <<env, appVars, uiVars, user, authSub, lost, syncVars, diagVars,
                   fetchPending>>

(* Mutant: the catch asks for an anonymous identity again *)
SignInFail_Retry(c) ==
    /\ signInPending[c] > 0
    /\ log' = [log EXCEPT ![c] = @ \cup {"signin"}]
    /\ lastEvent' = Event("SignInFail", c)
    /\ UNCHANGED <<env, appVars, uiVars, user, authSub, authQueue, identity, signIns,
                   signInPending, lost, syncVars, unhandled, fetchPending>>

(* signInAnonymously rejects: the .catch of App.js:59-61 *)
SignInFail(c) ==
    /\ signInPending[c] > 0
    /\ signInPending' = [signInPending EXCEPT ![c] = @ - 1]
    /\ log' = [log EXCEPT ![c] = @ \cup {"signin"}]
    /\ lastEvent' = Event("SignInFail", c)
    /\ UNCHANGED <<env, appVars, uiVars, user, authSub, authQueue, identity, signIns,
                   lost, syncVars, unhandled, fetchPending>>

(* The provider drops the session's identity and notifies the observer *)
IdentityLost(c) ==
    /\ identity[c] # Null
    /\ authSub[c] = "active"
    /\ lost[c] < MaxLost
    /\ lost' = [lost EXCEPT ![c] = @ + 1]
    /\ identity' = [identity EXCEPT ![c] = Null]
    /\ authQueue' = [authQueue EXCEPT ![c] = Append(@, Null)]
    /\ lastEvent' = Event("IdentityLost", c)
    /\ UNCHANGED <<env, appVars, uiVars, user, authSub, signIns, signInPending,
                   syncVars, diagVars, fetchPending>>

--------------------------------------------------------------------------
(* The "Firestore Message Listener" effect, App.js:69-72: subscribes *)
MessageEffect(c) ==
    /\ db[c] # Null
    /\ msgSub[c] = "none"
    /\ msgSub' = [msgSub EXCEPT ![c] = "active"]
    /\ lastEvent' = Event("MessageEffect", c)
    /\ UNCHANGED <<env, appVars, uiVars, authVars, cursor, pendingAdds, store, clock,
                   diagVars, fetchPending>>

(* Mutant: the callback keeps the first snapshot it was given *)
OnSnapshot_FirstOnly(c, docs) ==
    IF cursor[c] < 0 THEN SnapshotToMsgs(docs) ELSE messages[c]

(* Mutant: the callback patches the view with the snapshot *)
OnSnapshot_Patch(c, docs) == messages[c] \o SnapshotToMsgs(docs)

(* The view the snapshot callback of App.js:72-77 computes *)
OnSnapshot(c, docs) == SnapshotToMsgs(docs)

(* A store notification: the query result at a version t newer than the    *)
(* last one delivered (the first notification may carry an empty result).  *)
Deliver(c, t) ==
    /\ msgSub[c] = "active"
    /\ t \in (cursor[c] + 1)..clock
    /\ cursor' = [cursor EXCEPT ![c] = t]
    /\ messages' = [messages EXCEPT ![c] = OnSnapshot(c, QueryAt(t))]
    /\ lastEvent' = Event("Deliver", c)
    /\ UNCHANGED <<env, appVars, newMessage, geminiResponse, authVars, msgSub,
                   pendingAdds, store, clock, diagVars, fetchPending>>

(* Mutant: the error callback empties the view *)
OnSnapshotError_Clear(c) == <<>>

(* The view after the error callback of App.js:78-80, which only logs *)
OnSnapshotError(c) == messages[c]

(* The onSnapshot error callback, App.js:78-80; the store ends a listener  *)
(* it has reported an error to.                                            *)
SubError(c) ==
    /\ msgSub[c] = "active"
    /\ msgSub' = [msgSub EXCEPT ![c] = "errored"]
    /\ log' = [log EXCEPT ![c] = @ \cup {"snapshot"}]
    /\ messages' = [messages EXCEPT ![c] = OnSnapshotError(c)]
    /\ lastEvent' = Event("SubError", c)
    /\ UNCHANGED <<env, appVars, newMessage, geminiResponse, authVars, cursor,
                   pendingAdds, store, clock, unhandled, fetchPending>>

--------------------------------------------------------------------------
(* The input's onChange, App.js:179; the form is rendered only past the    *)
(* guard of App.js:152-154.                                                *)
Type(c, t) ==
    /\ isConfigValid[c]
    /\ t # newMessage[c]
    /\ newMessage' = [newMessage EXCEPT ![c] = t]
    /\ lastEvent' = Event("Type", c)
    /\ UNCHANGED <<env, appVars, messages, geminiResponse, authVars, syncVars,
                   diagVars, fetchPending>>

(* Mutant: the guard compares the input untrimmed *)
SendAccepted_NoTrim(c) ==
    ~(newMessage[c] = <<>> \/ user[c] = Null \/ db[c] = Null)

(* Mutant: the guard does not test the user *)
SendAccepted_NoUser(c) ==
    ~(Trim(newMessage[c]) = <<>> \/ db[c] = Null)

(* The guard of App.js:93, negated: the submit goes on to addDoc *)
SendAccepted(c) ==
    ~(Trim(newMessage[c]) = <<>> \/ user[c] = Null \/ db[c] = Null)

(* Mutant: the record is built after the input was cleared *)
NewRecord_Cleared(c) == [text |-> <<>>, uid |-> user[c]]

(* The record of App.js:95-99, before the store stamps createdAt *)
NewRecord(c) == [text |-> newMessage[c], uid |-> user[c]]

(* Mutant: the submit shows the message at once *)
SendView_Optimistic(c) ==
    IF SendAccepted_NoUser(c) /\ user[c] # Null
    THEN Append(messages[c], [text |-> newMessage[c], uid |-> user[c]])
    ELSE messages[c]

(* The view after a submit: sendMessage makes no setMessages call *)
SendView(c) == messages[c]

(* The form's onSubmit, App.js:91-99, up to the await, with fewer than     *)
(* cap addDoc calls of the session in flight                               *)
Submit(c, cap) ==
    /\ isConfigValid[c]
    /\ IF SendAccepted(c)
       THEN /\ Len(pendingAdds[c]) < cap
            /\ pendingAdds' = [pendingAdds EXCEPT ![c] = Append(@, NewRecord(c))]
       ELSE UNCHANGED pendingAdds
    /\ messages' = [messages EXCEPT ![c] = SendView(c)]
    /\ lastEvent' = Event("sendMessage", c)
    /\ UNCHANGED <<env, appVars, newMessage, geminiResponse, authVars, msgSub, cursor,
                   store, clock, diagVars, fetchPending>>

(* The form's onSubmit, App.js:91-99, up to the await *)
sendMessage(c) == Submit(c, MaxPending)

(* The document the store commits for record r: a fresh id and the server  *)
(* timestamp of the commit.                                                *)
Commit(r) ==
    [id |-> clock + 1,
     data |-> [text |-> r.text, createdAt |-> clock + 1, uid |-> r.uid]]

(* Mutant: the input is cleared only if it still holds the text sent *)
AfterAddDoc_IfUnchanged(c) ==
    IF newMessage[c] = Head(pendingAdds[c]).text THEN <<>> ELSE newMessage[c]

(* The input after addDoc resolved: setNewMessage('') of App.js:101 *)
AfterAddDoc(c) == <<>>

(* addDoc resolves: the document is committed, then App.js:101 runs *)
AddDocSucceed(c) ==
    /\ pendingAdds[c] # <<>>
    /\ Cardinality(store) < MaxStore
    /\ store' = store \cup {Commit(Head(pendingAdds[c]))}
    /\ clock' = clock + 1
    /\ pendingAdds' = [pendingAdds EXCEPT ![c] = Tail(@)]
    /\ newMessage' = [newMessage EXCEPT ![c] = AfterAddDoc(c)]
    /\ lastEvent' = Event("AddDocSucceed", c)
    /\ UNCHANGED <<env, appVars, messages, geminiResponse, authVars, msgSub, cursor,
                   diagVars, fetchPending>>

(* What an addDoc rejection leaves behind: App.js:95 awaits outside any    *)
(* try, so the rejection leaves sendMessage unhandled and nothing is       *)
(* logged.                                                                 *)
AddDocRejected(c) ==
    /\ unhandled' = [unhandled EXCEPT ![c] = @ \cup {"addDoc"}]
    /\ UNCHANGED <<log, newMessage>>

(* addDoc rejects *)
AddDocFail(c) ==
    /\ pendingAdds[c] # <<>>
    /\ pendingAdds' = [pendingAdds EXCEPT ![c] = Tail(@)]
    /\ AddDocRejected(c)
    /\ lastEvent' = Event("AddDocFail", c)
    /\ UNCHANGED <<env, appVars, messages, geminiResponse, authVars, msgSub, cursor,
                   store, clock, fetchPending>>

--------------------------------------------------------------------------
(* messages.map(msg => msg.text).join('\n'), App.js:136 *)
RECURSIVE Conversation(_)
Conversation(msgs) ==
    IF msgs = <<>> THEN <<>>
    ELSE IF Len(msgs) = 1 THEN msgs[1].text
    ELSE msgs[1].text \o <<"\n">> \o Conversation(Tail(msgs))

(* The prompts of App.js:137 and App.js:147 *)
SummarizePrompt(msgs) == [kind |-> "summarize", about |-> Conversation(msgs)]
SuggestPrompt(msgs) == [kind |-> "suggest", about |-> msgs[Len(msgs)].text]

(* Mutant: the request is sent whether or not a key is set *)
GetGeminiResponse_NoKeyCheck(c, prompt) ==
    /\ Len(fetchPending[c]) < MaxFetch
    /\ fetchPending' = [fetchPending EXCEPT ![c] = Append(@, prompt)]
    /\ UNCHANGED geminiResponse

(* getGeminiResponse up to its await, App.js:105-121: without a key the    *)
(* fixed text is shown and no request is made; with one the request is     *)
(* sent.                                                                   *)
GetGeminiResponse(c, prompt) ==
    IF "geminiApiKey" \notin env
    THEN /\ geminiResponse' = [geminiResponse EXCEPT ![c] = ConfigErrorText]
         /\ UNCHANGED fetchPending
    ELSE /\ Len(fetchPending[c]) < MaxFetch
         /\ fetchPending' = [fetchPending EXCEPT ![c] = Append(@, prompt)]
         /\ UNCHANGED geminiResponse

(* The Summarize button, App.js:135-139 *)
HandleSummarize(c) ==
    GetGeminiResponse(c, SummarizePrompt(messages[c]))

handleSummarize(c) ==
    /\ isConfigValid[c]
    /\ HandleSummarize(c)
    /\ lastEvent' = Event("handleSummarize", c)
    /\ UNCHANGED <<env, appVars, messages, newMessage, authVars, syncVars, diagVars>>

(* The Suggest Reply button, App.js:141-149 *)
HandleSuggestReply(c) ==
    IF Len(messages[c]) = 0
    THEN /\ geminiResponse' = [geminiResponse EXCEPT ![c] = NoMessagesText]
         /\ UNCHANGED fetchPending
    ELSE GetGeminiResponse(c, SuggestPrompt(messages[c]))

handleSuggestReply(c) ==
    /\ isConfigValid[c]
    /\ HandleSuggestReply(c)
    /\ lastEvent' = Event("handleSuggestReply", c)
    /\ UNCHANGED <<env, appVars, messages, newMessage, authVars, syncVars, diagVars>>

(* The text the endpoint generates for a prompt *)
Generated(prompt) ==
    IF prompt.kind = "summarize" THEN "generated summary" ELSE "generated reply"

ApiErrorMessage == "API key not valid. Please pass a valid API key."

(* The ways a request ends, App.js:122-132:                                *)
(*   "candidate"  a body with a candidate carrying text                    *)
(*   "apiError"   a body without candidates and with error.message        *)
(*   "empty"      a body without candidates and without error             *)
(*   "malformed"  a body with a candidate lacking content.parts            *)
(*   "textless"   a body with a candidate whose parts[0] has no text       *)
(*   "network"    fetch or response.json() rejects                         *)
Outcomes == {"candidate", "apiError", "empty", "malformed", "textless", "network"}

(* Mutant: App.js:127 without its "|| fallback" *)
ResponseText_NoDefault(prompt, outcome) ==
    CASE outcome = "candidate" -> Generated(prompt)
      [] outcome = "apiError"  -> ApiErrorMessage
      [] outcome = "empty"     -> ""
      [] outcome = "malformed" -> FallbackText
      [] outcome = "textless"  -> ""
      [] outcome = "network"   -> FallbackText

(* What is shown when request `prompt` ends with `outcome`; a text that    *)
(* is undefined shows like the empty one: no response is rendered.         *)
ResponseText(prompt, outcome) ==
    CASE outcome = "candidate" -> Generated(prompt)
      [] outcome = "apiError"  -> ApiErrorMessage
      [] outcome = "empty"     -> FallbackText
      [] outcome = "malformed" -> FallbackText
      [] outcome = "textless"  -> ""
      [] outcome = "network"   -> FallbackText

(* The completion of the i-th of n requests in flight, with its outcome *)
FetchEvent(c, i, n, outcome) ==
    [op |-> "FetchComplete", c |-> c, i |-> i, n |-> n, outcome |-> outcome]

(* Mutant: a result is shown only when no response is on display *)
FetchComplete_KeepPrior(c, i, outcome) ==
    /\ i \in 1..Len(fetchPending[c])
    /\ fetchPending' = [fetchPending EXCEPT ![c] =
                          SubSeq(@, 1, i - 1) \o SubSeq(@, i + 1, Len(@))]
    /\ geminiResponse' = [geminiResponse EXCEPT ![c] =
                            IF @ # "" THEN @
                            ELSE ResponseText(fetchPending[c][i], outcome)]
    /\ log' = [log EXCEPT ![c] =
                 IF outcome \in {"malformed", "network"} THEN @ \cup {"gemini"} ELSE @]
    /\ lastEvent' = FetchEvent(c, i, Len(fetchPending[c]), outcome)
    /\ UNCHANGED <<env, appVars, messages, newMessage, authVars, syncVars, unhandled>>

(* The rest of getGeminiResponse, App.js:122-132; the requests of a        *)
(* session complete in any order.                                          *)
FetchComplete(c, i, outcome) ==
    /\ i \in 1..Len(fetchPending[c])
    /\ fetchPending' = [fetchPending EXCEPT ![c] =
                          SubSeq(@, 1, i - 1) \o SubSeq(@, i + 1, Len(@))]
    /\ geminiResponse' = [geminiResponse EXCEPT ![c] =
                            ResponseText(fetchPending[c][i], outcome)]
    /\ log' = [log EXCEPT ![c] =
                 IF outcome \in {"malformed", "network"} THEN @ \cup {"gemini"} ELSE @]
    /\ lastEvent' = FetchEvent(c, i, Len(fetchPending[c]), outcome)
    /\ UNCHANGED <<env, appVars, messages, newMessage, authVars, syncVars, unhandled>>

(* Mutant: dismissing the response aborts the requests in flight *)
Dismiss_Cancel(c) ==
    /\ isConfigValid[c]
    /\ geminiResponse[c] # ""
    /\ geminiResponse' = [geminiResponse EXCEPT ![c] = ""]
    /\ fetchPending' = [fetchPending EXCEPT ![c] = <<>>]
    /\ lastEvent' = Event("Dismiss", c)
    /\ UNCHANGED <<env, appVars, messages, newMessage, authVars, syncVars, diagVars>>

(* The dismiss button of the response, App.js:170, rendered only while a   *)
(* response is shown.                                                      *)
Dismiss(c) ==
    /\ isConfigValid[c]
    /\ geminiResponse[c] # ""
    /\ geminiResponse' = [geminiResponse EXCEPT ![c] = ""]
    /\ lastEvent' = Event("Dismiss", c)
    /\ UNCHANGED <<env, appVars, messages, newMessage, authVars, syncVars, diagVars,
                   fetchPending>>

--------------------------------------------------------------------------
(* Mounting, and the identity flow *)
BootStep(c) ==
    \/ \E o \in {"ok", "throwApp", "throwFirestore"} : InitFirebase(c, o)
    \/ AuthEffect(c)
    \/ AuthNotify(c)
    \/ SignInSucceed(c)
    \/ SignInFail(c)

(* The message subscription *)
ViewStep(c) ==
    \/ MessageEffect(c)
    \/ \E t \in 0..MaxStore : Deliver(c, t)
    \/ SubError(c)

(* The input form *)
SendStep(c) ==
    \/ \E t \in Texts : Type(c, t)
    \/ sendMessage(c)
    \/ AddDocSucceed(c)
    \/ AddDocFail(c)

(* The assistant buttons *)
AssistStep(c) ==
    \/ handleSummarize(c)
    \/ handleSuggestReply(c)
    \/ \E i \in 1..MaxFetch, o \in Outcomes : FetchComplete(c, i, o)
    \/ Dismiss(c)

(* Another client of the same collection appends a document *)
RemoteAppend ==
    /\ Cardinality(store) < MaxStore
    /\ store' = store \cup {Commit([text |-> <<"a">>, uid |-> Uid("peer", 1)])}
    /\ clock' = clock + 1
    /\ lastEvent' = Event("RemoteAppend", "peer")
    /\ UNCHANGED <<env, appVars, uiVars, authVars, msgSub, cursor, pendingAdds,
                   diagVars, fetchPending>>

(* One App instance, session A, with the services and the other clients   *)
(* of the store as its environment.                                        *)
Next == BootStep("A") \/ ViewStep("A") \/ SendStep("A") \/ RemoteAppend

Spec == Init /\ [][Next]_vars

(* The assistant: one App instance whose view is fed by the other clients *)
(* of the store, for builds with and without the inference credential.    *)
InitAssistant == InitWith({Keys, Keys \ {"geminiApiKey"}})

NextAssistant == BootStep("A") \/ ViewStep("A") \/ AssistStep("A") \/ RemoteAppend

SpecAssistant == InitAssistant /\ [][NextAssistant]_vars

(* Two App instances on one store.  Both have mounted with a complete     *)
(* configuration, signed in and subscribed (the state BootStep and        *)
(* MessageEffect lead each of them to), the last of these steps being the *)
(* identity notification of B; no snapshot has been delivered yet.        *)
InitTwo ==
    /\ env = Keys
    /\ phase = [c \in Sessions |-> "mounted"]
    /\ auth = [c \in Sessions |-> <<"auth", c>>]
    /\ db = [c \in Sessions |-> <<"db", c>>]
    /\ isConfigValid = [c \in Sessions |-> TRUE]
    /\ user = [c \in Sessions |-> Uid(c, 1)]
    /\ messages = [c \in Sessions |-> <<>>]
    /\ newMessage = [c \in Sessions |-> <<>>]
    /\ geminiResponse = [c \in Sessions |-> ""]
    /\ authSub = [c \in Sessions |-> "active"]
    /\ authQueue = [c \in Sessions |-> <<>>]
    /\ identity = [c \in Sessions |-> Uid(c, 1)]
    /\ signIns = [c \in Sessions |-> 1]
    /\ signInPending = [c \in Sessions |-> 0]
    /\ msgSub = [c \in Sessions |-> "active"]
    /\ cursor = [c \in Sessions |-> -1]
    /\ pendingAdds = [c \in Sessions |-> <<>>]
    /\ fetchPending = [c \in Sessions |-> <<>>]
    /\ log = [c \in Sessions |-> {}]
    /\ unhandled = [c \in Sessions |-> {}]
    /\ store = {}
    /\ clock = 0
    /\ lost = [c \in Sessions |-> 0]
    /\ lastEvent = Event("AuthNotify", "B")

(* The steps of a subscribed session whose appends succeed; what the     *)
(* user types there is one sendable text.                                  *)
SyncStep(c) ==
    \/ \E t \in 0..MaxStore : Deliver(c, t)
    \/ SubError(c)
    \/ Type(c, <<"a">>)
    \/ sendMessage(c)
    \/ AddDocSucceed(c)

NextTwo == \E c \in Sessions : SyncStep(c)

(* The store notifies every listener it has not ended of every change *)
Notified(c) == WF_vars(\E t \in 0..MaxStore : Deliver(c, t))

SpecTwo == InitTwo /\ [][NextTwo]_vars /\ \A c \in Sessions : Notified(c)

(* Configuration: one App instance for the complete build and for each   *)
(* build that lacks one of the seven values of App.js:14-21 and 106.      *)
InitConfig == InitWith({Keys} \cup {Keys \ {k} : k \in Keys})

NextConfig == BootStep("A") \/ ViewStep("A") \/ RemoteAppend

SpecConfig == InitConfig /\ [][NextConfig]_vars

(* Mutant: the cleanup leaves the listener attached *)
MessageCleanup_Leak(c) == msgSub[c]

(* The listener after the cleanup of App.js:81, unsubscribe() *)
MessageCleanup(c) == "closed"

(* The component is taken down: React runs the cleanups of the effects,   *)
(* App.js:64 and App.js:81; an effect that had not subscribed yet never   *)
(* will.  The promises in flight still settle.                            *)
Unmount(c) ==
    /\ phase[c] = "mounted"
    /\ phase' = [phase EXCEPT ![c] = "unmounted"]
    /\ authSub' = [authSub EXCEPT ![c] = "closed"]
    /\ msgSub' = [msgSub EXCEPT ![c] = MessageCleanup(c)]
    /\ lastEvent' = Event("Unmount", c)
    /\ UNCHANGED <<env, auth, db, isConfigValid, uiVars, user, authQueue, identity,
                   signIns, signInPending, lost, cursor, pendingAdds, store, clock,
                   diagVars, fetchPending>>

(* Teardown: one App instance that mounts, subscribes and is taken down   *)
(* while the other clients keep appending; a component that is taken down *)
(* renders no form and no button.                                         *)
InitTeardown == InitWith({Keys})

NextTeardown == BootStep("A") \/ ViewStep("A") \/ RemoteAppend \/ Unmount("A")

SpecTeardown == InitTeardown /\ [][NextTeardown]_vars

(* Identity: one App instance whose provider can drop the identity it     *)
(* issued (the account is deleted or its token revoked), with its form.   *)
InitIdentity == InitWith({Keys})

(* The form of a session that sends one text and whose appends succeed *)
AuthorStep(c) ==
    \/ Type(c, <<"a">>)
    \/ sendMessage(c)
    \/ AddDocSucceed(c)

NextIdentity == BootStep("A") \/ IdentityLost("A") \/ AuthorStep("A")

SpecIdentity == InitIdentity /\ [][NextIdentity]_vars

(* The form where the user submits again before an append has settled *)
ResendStep(c) ==
    \/ \E t \in Texts : Type(c, t)
    \/ Submit(c, MaxResend)
    \/ AddDocSucceed(c)
    \/ AddDocFail(c)

(* Overlapping submits: one App instance that mounts, signs in and sends *)
InitResend == InitWith({Keys})

NextResend == BootStep("A") \/ ResendStep("A")

SpecResend == InitResend /\ [][NextResend]_vars

--------------------------------------------------------------------------
(* Properties *)

(* The step just taken ran handler `op` of session c *)
Ran(op, c) == lastEvent' = Event(op, c)

(* The documents of the store a snapshot of version t holds *)
DocsAt(t) == {d \in store : d.data.createdAt <= t}

(* View v shows exactly the documents D: every document once, with its     *)
(* fields, createdAt ascending.                                            *)
Shows(v, D) ==
    /\ Len(v) = Cardinality(D)
    /\ \A d \in D : \E i \in 1..Len(v) :
          /\ v[i].id = d.id
          /\ v[i].text = d.data.text
          /\ v[i].uid = d.data.uid
          /\ v[i].createdAt = d.data.createdAt
    /\ \A i, j \in 1..Len(v) : i < j => v[i].createdAt < v[j].createdAt

Ids(v) == {v[i].id : i \in 1..Len(v)}

(* C1: a submit of an empty or all-whitespace input issues no append and   *)
(* leaves the store, the input and the view as they were, whatever user    *)
(* and db are.                                                             *)
C1_BlankSubmitDoesNothing ==
    [][\A c \in Sessions :
         (Ran("sendMessage", c) /\ Trim(newMessage[c]) = <<>>)
            => /\ pendingAdds' = pendingAdds
               /\ store' = store
               /\ newMessage' = newMessage
               /\ messages' = messages]_vars

(* A blank, non-empty input was just submitted with a user and a store     *)
(* handle present, and no append is in flight.                             *)
C1_Witness ==
    /\ lastEvent = Event("sendMessage", "A")
    /\ newMessage["A"] = <<" ">>
    /\ user["A"] # Null
    /\ db["A"] # Null
    /\ pendingAdds["A"] = <<>>

(* C2: a submit without a user or without a store handle issues no append, *)
(* for any input; an append is issued only with both present.              *)
C2_NoSessionNoAppend ==
    [][\A c \in Sessions :
         /\ (Ran("sendMessage", c) /\ (user[c] = Null \/ db[c] = Null))
               => (pendingAdds' = pendingAdds /\ store' = store)
         /\ Len(pendingAdds'[c]) > Len(pendingAdds[c])
               => (user[c] # Null /\ db[c] # Null)]_vars

(* A non-blank input was just submitted after the anonymous sign-in had    *)
(* failed: the user is null, the store handle is present.                  *)
C2_Witness ==
    /\ lastEvent = Event("sendMessage", "A")
    /\ Trim(newMessage["A"]) # <<>>
    /\ user["A"] = Null
    /\ "signin" \in log["A"]
    /\ db["A"] # Null
    /\ pendingAdds["A"] = <<>>

(* C3: an accepted submit issues exactly one append, of the input text     *)
(* and the user's uid; a successful append commits exactly one document,   *)
(* carrying that text and uid, under a fresh id and a createdAt greater    *)
(* than every earlier one; a snapshot shows every committed document       *)
(* once, and every message new to the view is later than all the view      *)
(* held.                                                                   *)
C3_SendAppendsOne ==
    [][\A c \in Sessions :
         /\ (Ran("sendMessage", c) /\ Trim(newMessage[c]) # <<>>
                 /\ user[c] # Null /\ db[c] # Null)
               => /\ pendingAdds'[c] =
                        Append(pendingAdds[c], [text |-> newMessage[c], uid |-> user[c]])
                  /\ store' = store
         /\ Ran("AddDocSucceed", c)
               => \E d \in store' :
                     /\ d \notin store
                     /\ store' = store \cup {d}
                     /\ d.data.text = Head(pendingAdds[c]).text
                     /\ d.data.uid = Head(pendingAdds[c]).uid
                     /\ \A e \in store : e.id # d.id /\ e.data.createdAt < d.data.createdAt
                     /\ pendingAdds'[c] = Tail(pendingAdds[c])
         /\ Ran("Deliver", c)
               => /\ \A d \in DocsAt(cursor[c])' :
                        Cardinality({i \in 1..Len(messages'[c]) :
                                        messages'[c][i].id = d.id}) = 1
                  /\ \A i \in 1..Len(messages'[c]) :
                        messages'[c][i].id \notin Ids(messages[c])
                           => \A j \in 1..Len(messages[c]) :
                                 messages[c][j].createdAt < messages'[c][i].createdAt
      ]_vars

(* A snapshot was just delivered that shows the session's own message      *)
(* after an earlier one.                                                   *)
C3_Witness ==
    /\ lastEvent = Event("Deliver", "A")
    /\ Len(messages["A"]) = 2
    /\ messages["A"][2].uid = user["A"]
    /\ messages["A"][2].text = <<"a">>
    /\ messages["A"][1].createdAt < messages["A"][2].createdAt

(* C4: the view is written by the snapshot callback alone: no other step,  *)
(* a submit and the completion of its append included, changes it.         *)
C4_OnlySnapshotWritesView ==
    [][\A c \in Sessions :
         /\ messages'[c] # messages[c] => Ran("Deliver", c)
         /\ Ran("sendMessage", c) => messages'[c] = messages[c]
         /\ Ran("AddDocSucceed", c) => messages'[c] = messages[c]]_vars

(* An accepted submit has just been made from a non-empty view, which      *)
(* does not show the submitted message.                                    *)
C4_Witness ==
    /\ lastEvent = Event("sendMessage", "A")
    /\ Len(pendingAdds["A"]) = 1
    /\ Len(messages["A"]) = 1
    /\ messages["A"][1].uid # user["A"]

(* C5: after a store notification the view is the content of that          *)
(* snapshot, every document once, createdAt ascending, nothing carried     *)
(* over; every id the view held is still shown.                            *)
C5_ViewIsSnapshot ==
    [][\A c \in Sessions :
         Ran("Deliver", c)
            => /\ Shows(messages[c], DocsAt(cursor[c]))'
               /\ Ids(messages[c]) \subseteq Ids(messages'[c])
               /\ Cardinality(Ids(messages'[c])) = Len(messages'[c])]_vars

(* A notification has just been delivered whose snapshot holds two         *)
(* documents, and the view shows both.                                     *)
C5_Witness ==
    /\ lastEvent = Event("Deliver", "A")
    /\ cursor["A"] = 2
    /\ Len(messages["A"]) = 2
    /\ Ids(messages["A"]) = {1, 2}

(* Both sessions hold a live subscription *)
BothSubscribed == \A c \in Sessions : msgSub[c] = "active"

(* The document with id n is committed *)
Committed(n) == \E d \in store : d.id = n

(* The sessions' views are one and the same sequence, which shows n *)
Converged(n) ==
    /\ \A c \in Sessions : n \in Ids(messages[c])
    /\ \A c1, c2 \in Sessions : messages[c1] = messages[c2]

(* C6: two subscribed sessions converge.  Once a send of either has been   *)
(* committed, both views come to be the same sequence showing the new      *)
(* message, as long as both subscriptions live; the notification of a      *)
(* store version shows every message committed up to it, and two sessions  *)
(* notified of the same version hold the same view.                        *)
C6_SessionsConverge ==
    /\ \A n \in 1..MaxStore :
          (Committed(n) /\ BothSubscribed) ~> (Converged(n) \/ ~BothSubscribed)
    /\ [](\A c \in Sessions : \A d \in store :
             (cursor[c] >= d.data.createdAt) => d.id \in Ids(messages[c]))
    /\ [](\A c1, c2 \in Sessions :
             cursor[c1] = cursor[c2] => messages[c1] = messages[c2])

(* Both sessions are subscribed and hold the same view of two messages,    *)
(* one sent by each.                                                       *)
C6_Witness ==
    /\ BothSubscribed
    /\ messages["A"] = messages["B"]
    /\ Len(messages["A"]) = 2
    /\ {messages["A"][i].uid : i \in 1..2} = {user["A"], user["B"]}

(* C7: when the append of a send fails the failure is logged, the input   *)
(* keeps its text and the message subscription stays as it was.            *)
C7_AppendFailureLogged ==
    [][\A c \in Sessions :
         Ran("AddDocFail", c)
            => /\ "addDoc" \in log'[c]
               /\ newMessage'[c] = newMessage[c]
               /\ msgSub'[c] = msgSub[c]]_vars

(* C8: a subscription error is logged, leaves the view at the content of   *)
(* the last snapshot received, and neither crashes the App nor puts it in  *)
(* the configuration-error state; the view stays so while the listener is  *)
(* ended.                                                                  *)
C8_SubscriptionErrorKeepsView ==
    /\ [][\A c \in Sessions :
            Ran("SubError", c)
               => /\ "snapshot" \in log'[c]
                  /\ messages'[c] = messages[c]
                  /\ isConfigValid'[c]
                  /\ unhandled'[c] = unhandled[c]]_vars
    /\ [](\A c \in Sessions :
            msgSub[c] = "errored"
               => /\ isConfigValid[c]
                  /\ IF cursor[c] < 0 THEN messages[c] = <<>>
                     ELSE Shows(messages[c], DocsAt(cursor[c])))

(* The subscription has just reported an error after a snapshot of one     *)
(* document, and the store holds two.                                      *)
C8_Witness ==
    /\ lastEvent = Event("SubError", "A")
    /\ msgSub["A"] = "errored"
    /\ Len(messages["A"]) = 1
    /\ Cardinality(store) = 2

(* C9: with an empty view, Summarize and Suggest Reply both show the       *)
(* "no messages" text and send no request.                                 *)
C9_EmptyViewNoRequest ==
    [][\A c \in Sessions :
         ((Ran("handleSummarize", c) \/ Ran("handleSuggestReply", c))
             /\ messages[c] = <<>>)
            => /\ geminiResponse'[c] = NoMessagesText
               /\ fetchPending'[c] = fetchPending[c]]_vars

(* C10 as claimed: without the inference credential, Summarize and Suggest *)
(* Reply show the configuration-error text and send no request, whatever   *)
(* the view holds.                                                         *)
C10_NoKeyConfigErrorAlways ==
    [][\A c \in Sessions :
         ((Ran("handleSummarize", c) \/ Ran("handleSuggestReply", c))
             /\ "geminiApiKey" \notin env)
            => /\ geminiResponse'[c] = ConfigErrorText
               /\ fetchPending'[c] = fetchPending[c]]_vars

(* C10 amended: without the inference credential neither button sends a    *)
(* request; Summarize shows the configuration-error text for every view,   *)
(* Suggest Reply shows it for a non-empty view and the "no messages" text  *)
(* for an empty one.                                                       *)
C10_NoKeyNoRequest ==
    [][\A c \in Sessions :
         /\ (Ran("handleSummarize", c) /\ "geminiApiKey" \notin env)
               => /\ geminiResponse'[c] = ConfigErrorText
                  /\ fetchPending'[c] = fetchPending[c]
         /\ (Ran("handleSuggestReply", c) /\ "geminiApiKey" \notin env)
               => /\ geminiResponse'[c] =
                        IF messages[c] = <<>> THEN NoMessagesText ELSE ConfigErrorText
                  /\ fetchPending'[c] = fetchPending[c]]_vars

(* Without the credential, Suggest Reply has just been pressed on a        *)
(* non-empty view.                                                         *)
C10_Witness ==
    /\ lastEvent = Event("handleSuggestReply", "A")
    /\ "geminiApiKey" \notin env
    /\ messages["A"] # <<>>
    /\ geminiResponse["A"] = ConfigErrorText
    /\ fetchPending["A"] = <<>>

(* The step just taken completed a request of session c with outcome o *)
Completed(c, o) ==
    /\ lastEvent'.op = "FetchComplete"
    /\ lastEvent'.c = c
    /\ lastEvent'.outcome = o

(* The ways a request ends other than with a candidate that carries text *)
Failures == Outcomes \ {"candidate"}

SlotTexts ==
    {"", ConfigErrorText, NoMessagesText, FallbackText, ApiErrorMessage,
     "generated summary", "generated reply"}

(* C12: one response slot.  It holds at most one text; pressing a button   *)
(* while a response is on display leaves that response up until the new    *)
(* request ends, and the end of a request puts that request's result in    *)
(* the slot, whole, whatever the slot held.                                *)
C12_SingleSlot ==
    /\ [](\A c \in Sessions : geminiResponse[c] \in SlotTexts)
    /\ [][\A c \in Sessions :
            /\ lastEvent'.op = "FetchComplete" /\ lastEvent'.c = c
                  => geminiResponse'[c] =
                        ResponseText(fetchPending[c][lastEvent'.i], lastEvent'.outcome)
            /\ ((Ran("handleSummarize", c) \/ Ran("handleSuggestReply", c))
                   /\ Len(fetchPending'[c]) > Len(fetchPending[c]))
                  => geminiResponse'[c] = geminiResponse[c]]_vars

(* A reply has just been generated and shown after an earlier request of   *)
(* the session had failed.                                                 *)
C12_Witness ==
    /\ lastEvent = FetchEvent("A", 1, 1, "candidate")
    /\ geminiResponse["A"] = "generated reply"
    /\ "gemini" \in log["A"]

(* s is an initial segment of t *)
IsPrefix(s, t) == Len(s) <= Len(t) /\ SubSeq(t, 1, Len(s)) = s

(* C18: requests are never cancelled.  A dismiss and a new request leave   *)
(* the requests in flight as they are, and whichever request ends, be it   *)
(* the newest or an older one, be the slot empty or not, its result takes  *)
(* the slot: the slot holds the result of the request that ended last.     *)
C18_LastCompletedWins ==
    [][\A c \in Sessions :
         /\ Ran("Dismiss", c) => fetchPending'[c] = fetchPending[c]
         /\ (Ran("handleSummarize", c) \/ Ran("handleSuggestReply", c))
               => IsPrefix(fetchPending[c], fetchPending'[c])
         /\ lastEvent'.op = "FetchComplete" /\ lastEvent'.c = c
               => /\ lastEvent'.n = Len(fetchPending[c])
                  /\ lastEvent'.i \in 1..lastEvent'.n
                  /\ Len(fetchPending'[c]) = lastEvent'.n - 1
                  /\ \A o \in {"candidate"} :
                        lastEvent'.outcome = o
                           => geminiResponse'[c] =
                                 Generated(fetchPending[c][lastEvent'.i])]_vars

(* Of two overlapping requests the newer one, a reply suggestion, has      *)
(* just ended and is shown while the older one, a summary, is in flight.   *)
C18_Witness ==
    /\ lastEvent = FetchEvent("A", 2, 2, "candidate")
    /\ geminiResponse["A"] = "generated reply"
    /\ Len(fetchPending["A"]) = 1
    /\ fetchPending["A"][1].kind = "summarize"

(* C13 as claimed: a build that lacks any of the seven configuration       *)
(* values never reaches the operating chat state.                          *)
C13_AnyMissingValueRefuses ==
    env # Keys => \A c \in Sessions : ~isConfigValid[c]

(* C14 as claimed: while the configuration-error screen is shown nothing   *)
(* else is attempted: no identity subscription, no sign-in request, no     *)
(* message subscription, no append.                                        *)
C14_ErrorScreenIsInert ==
    \A c \in Sessions :
       (phase[c] = "mounted" /\ ~isConfigValid[c])
          => /\ authSub[c] = "none"
             /\ signInPending[c] = 0
             /\ msgSub[c] = "none"
             /\ pendingAdds[c] = <<>>

(* The identities in the notifications session c has yet to be given *)
QueuedUids(c) == {authQueue[c][k] : k \in 1..Len(authQueue[c])} \ {Null}

(* C15: session bootstrap.  A notification of no identity makes one        *)
(* request for an anonymous identity and leaves the user as it is; every   *)
(* identity the provider creates is notified once: it is queued at most    *)
(* once, it is not queued once it has been stored, and when nothing is     *)
(* queued the user is the newest identity created; a failed request is     *)
(* logged, is not issued again, and stores no user.                        *)
C15_SessionBootstrap ==
    /\ [](\A c \in Sessions :
            /\ \A j, k \in 1..Len(authQueue[c]) :
                  (j # k /\ authQueue[c][j] # Null) => authQueue[c][j] # authQueue[c][k]
            /\ user[c] \notin QueuedUids(c)
            /\ QueuedUids(c) \cup ({user[c]} \ {Null})
                  \subseteq {Uid(c, k) : k \in 1..signIns[c]}
            /\ (signIns[c] > 0 /\ QueuedUids(c) = {}) => user[c] = Uid(c, signIns[c])
            /\ signIns[c] = 0 => user[c] = Null)
    /\ [][\A c \in Sessions :
            /\ (Ran("AuthNotify", c) /\ Head(authQueue[c]) = Null)
                  => /\ signInPending'[c] = signInPending[c] + 1
                     /\ user'[c] = user[c]
            /\ (Ran("AuthNotify", c) /\ Head(authQueue[c]) # Null)
                  => /\ signInPending'[c] = signInPending[c]
                     /\ user'[c] = Head(authQueue[c])
            /\ Ran("SignInFail", c)
                  => /\ "signin" \in log'[c]
                     /\ signInPending'[c] = signInPending[c] - 1
                     /\ user'[c] = user[c]
                     /\ authQueue'[c] = authQueue[c]
                     /\ unhandled'[c] = unhandled[c]]_vars

(* The one sign-in request of a new session has just failed: it is logged, *)
(* no request is in flight, and there is no user.                          *)
C15_Witness ==
    /\ lastEvent = Event("SignInFail", "A")
    /\ "signin" \in log["A"]
    /\ signInPending["A"] = 0
    /\ signIns["A"] = 0
    /\ authQueue["A"] = <<>>
    /\ user["A"] = Null

(* C19: a user once stored is never reset to null.  A notification of no   *)
(* identity leaves it and asks for a new anonymous identity; until the     *)
(* notification of a new identity replaces it, an accepted submit is       *)
(* authored with it.                                                       *)
C19_UserNeverReset ==
    [][\A c \in Sessions :
         /\ user[c] # Null => user'[c] # Null
         /\ user'[c] # user[c]
               => Ran("AuthNotify", c) /\ user'[c] = Head(authQueue[c]) /\ user'[c] # Null
         /\ (Ran("AuthNotify", c) /\ Head(authQueue[c]) = Null /\ user[c] # Null)
               => /\ user'[c] = user[c]
                  /\ signInPending'[c] = signInPending[c] + 1
         /\ (Ran("sendMessage", c) /\ SendAccepted(c))
               => /\ Len(pendingAdds'[c]) = Len(pendingAdds[c]) + 1
                  /\ pendingAdds'[c][Len(pendingAdds'[c])].uid = user[c]]_vars

(* The provider has dropped the session's identity and said so; the        *)
(* session has just sent a message under the identity it had stored.       *)
C19_Witness ==
    /\ lastEvent = Event("sendMessage", "A")
    /\ identity["A"] = Null
    /\ lost["A"] = 1
    /\ authQueue["A"] = <<>>
    /\ user["A"] = Uid("A", 1)
    /\ pendingAdds["A"] # <<>>
    /\ pendingAdds["A"][Len(pendingAdds["A"])].uid = Uid("A", 1)

(* C16: one message subscription per App instance, none after its          *)
(* cancellation.  The store handle the listener effect depends on is set   *)
(* once, so the effect subscribes once: a listener becomes active only     *)
(* from the state where there is none; and once the cleanup has closed     *)
(* the listener it stays closed and the view never changes again.          *)
C16_OneSubscriptionNoneAfterCancel ==
    [][\A c \in Sessions :
         /\ db[c] # Null => db'[c] = db[c]
         /\ (msgSub'[c] = "active" /\ msgSub[c] # "active")
               => Ran("MessageEffect", c) /\ msgSub[c] = "none"
         /\ Ran("Unmount", c) => msgSub'[c] = "closed"
         /\ msgSub[c] = "closed"
               => /\ msgSub'[c] = "closed"
                  /\ messages'[c] = messages[c]
                  /\ cursor'[c] = cursor[c]]_vars

(* A session that showed one document was taken down, and another client   *)
(* has just appended a document the closed view does not show.             *)
C16_Witness ==
    /\ lastEvent = Event("RemoteAppend", "peer")
    /\ phase["A"] = "unmounted"
    /\ msgSub["A"] = "closed"
    /\ Len(messages["A"]) = 1
    /\ Cardinality(store) = 2
    /\ cursor["A"] < clock

(* C17: the program empties the input only when an append has succeeded,   *)
(* and then whatever the input holds: only typing and a successful append  *)
(* change the input, the append always to empty; a failed append and a     *)
(* submit leave it; and every accepted submit adds one addDoc call with    *)
(* the input's text, whether or not calls are in flight, with or without   *)
(* that same text.                                                         *)
C17_InputClearedOnSuccess ==
    [][\A c \in Sessions :
         /\ newMessage'[c] # newMessage[c]
               => Ran("Type", c) \/ Ran("AddDocSucceed", c)
         /\ Ran("AddDocSucceed", c) => newMessage'[c] = <<>>
         /\ Ran("AddDocFail", c) => newMessage'[c] = newMessage[c]
         /\ (Ran("sendMessage", c) /\ SendAccepted(c))
               => /\ newMessage'[c] = newMessage[c]
                  /\ pendingAdds'[c] =
                        Append(pendingAdds[c], [text |-> newMessage[c], uid |-> user[c]])
         /\ (Ran("sendMessage", c) /\ ~SendAccepted(c))
               => pendingAdds'[c] = pendingAdds[c]]_vars

(* The user has just submitted the text a second time while the append of  *)
(* the first submit was in flight: two calls with the same record.         *)
C17_Witness ==
    /\ lastEvent = Event("sendMessage", "A")
    /\ Len(pendingAdds["A"]) = 2
    /\ pendingAdds["A"][1] = pendingAdds["A"][2]
    /\ pendingAdds["A"][2].text = newMessage["A"]

====
